---- MODULE Spec2Model ----
(***************************************************************************)
(* State-machine model of src/src/lib.rs: a token ledger kept in the       *)
(* process-wide CONTRACT_STATE mutex and driven by process_instruction.    *)
(***************************************************************************)
EXTENDS Integers, FiniteSets, Sequences, TLC

\* ------------------------------------------------------------------ bounds

\* Largest value of the balance type.  The source uses u64 (2^64 - 1); the
\* model keeps the wrap-around arithmetic but on a narrow word so that the
\* overflow cases are inside the explored amounts.
MaxU64 == 2

\* Largest sum of deposited amounts followed per (token, user) pair.
MaxTally == 2

\* Size of the balance type: arithmetic on it is modulo this value.
U64Modulus == MaxU64 + 1

\* ------------------------------------------------------------- input sets

\* admin pubkey
ADMIN_PUBKEY == "D6gQ"

\* Pubkey values seen by the program: the admin key and one ordinary key.
Pubkeys == {ADMIN_PUBKEY, "user"}

\* TokenType values (symbols); the two symbols of the unit test.
TokenTypes == {"sol", "sool"}

\* amount: u64
Amounts == 0 .. MaxU64

\* the threads that call process_instruction concurrently
Threads == {"t1", "t2"}

\* the symbol and the key the concurrent callers use
ThreadTokenTypes == {"sol"}
ThreadPubkeys == {"user"}

\* the holder of a free mutex
NoHolder == "none"

\* ProgramResult values the program produces.  "Panic" is an abort of the
\* call (an unwrap() on Err or an arithmetic overflow check), not a value
\* returned to the caller.
Ok == "Ok"
MissingRequiredSignature == "MissingRequiredSignature"
Custom0 == "Custom0"
Custom1 == "Custom1"
Custom2 == "Custom2"
Custom3 == "Custom3"
InsufficientFunds == "InsufficientFunds"
Panic == "Panic"

\* ------------------------------------------------------ HashMap operations

\* HashMap::new()
EmptyMap == [k \in {} |-> 0]

\* HashMap::contains_key
contains_key(m, k) == k \in DOMAIN m

\* HashMap::insert (replaces the value of an existing key)
insert(m, k, v) == [x \in (DOMAIN m) \cup {k} |-> IF x = k THEN v ELSE m[x]]

\* HashMap::remove
remove(m, k) == [x \in (DOMAIN m) \ {k} |-> m[x]]

\* HashMap::entry(k).or_insert(v): the map after the call
or_insert(m, k, v) == IF contains_key(m, k) THEN m ELSE insert(m, k, v)

\* ------------------------------------------------------------------ state

VARIABLES
    all_token_balances, \* ContractState.all_token_balances
    poisoned,           \* CONTRACT_STATE mutex poisoned by a panic of a holder
    overflow_checks,    \* build profile: u64 `+=` panics on overflow, or wraps
    instruction,        \* the instruction of the last process_instruction call
    signer,             \* the key that signed the last call (in _accounts)
    result,             \* the outcome of the last process_instruction call
    before,             \* all_token_balances when the last call started
    deposited,          \* per (token, user): amounts of the successful deposits
                        \* since the token's latest registration, summed
    withdrawn,          \* the same sum for the successful withdrawals
    overflowed,         \* the (token, user) pairs a deposit has wrapped since
                        \* the token's latest registration
    pc,                 \* per thread: where its process_instruction call stands
    cmd,                \* per thread: the instruction of its call
    outcome,            \* per thread: the outcome of its call
    holder,             \* the thread holding the CONTRACT_STATE MutexGuard
    lin_balances,       \* all_token_balances with the calls applied one at a
                        \* time, in the order they were given the lock
    lin_poisoned,       \* poisoned, for the same one-at-a-time application
    lin_outcome         \* per thread: the outcome of its call, applied so

\* the record of the last call
call_vars == <<instruction, signer, result, before>>

\* the sums of the amounts moved
tally_vars == <<deposited, withdrawn, overflowed>>

\* the threads calling process_instruction, and the one-at-a-time reference
thread_vars ==
    <<pc, cmd, outcome, holder, lin_balances, lin_poisoned, lin_outcome>>

vars == <<all_token_balances, poisoned, overflow_checks, call_vars, tally_vars,
          thread_vars>>

\* enum ContractInstruction
AdminAddSupportedToken(token) ==
    [kind |-> "AdminAddSupportedToken", token |-> token]

AdminDeleteSupportedToken(token) ==
    [kind |-> "AdminDeleteSupportedToken", token |-> token]

UserDeposit(token, user, amount) ==
    [kind |-> "UserDeposit", token |-> token, user |-> user, amount |-> amount]

UserWithdraw(token, user, amount) ==
    [kind |-> "UserWithdraw", token |-> token, user |-> user, amount |-> amount]

\* instruction_data that serde_json cannot decode as a ContractInstruction
Malformed == [kind |-> "Malformed"]

\* no call made yet
NoInstruction == [kind |-> "None"]

\* --------------------------------------------------------------- handlers
\* Each handler is given the map and returns the ProgramResult, the map it
\* leaves behind, and whether it panicked while the caller held the lock.

Return(res, map) == [result |-> res, map |-> map, panicked |-> FALSE]

Abort(map) == [result |-> Panic, map |-> map, panicked |-> TRUE]

\* todo, do not verify signature by far
verify_signature(pubkey, sig) == TRUE

\* todo, not familiar with Solana sig verification
MOCK_SIG == "MOCK_SIG"

\* check_add_token with the registry rebuilt around the new token instead of
\* the token being inserted into it
check_add_token_rebuilds(token, atb) ==
    IF ~verify_signature(ADMIN_PUBKEY, MOCK_SIG)
    THEN Return(MissingRequiredSignature, atb)
    ELSE IF contains_key(atb, token)
    THEN Return(Custom0, atb)
    ELSE Return(Ok, insert(EmptyMap, token, EmptyMap))

\* add newly supported token
check_add_token(token, atb) ==
    IF ~verify_signature(ADMIN_PUBKEY, MOCK_SIG)
    THEN Return(MissingRequiredSignature, atb)
    ELSE IF contains_key(atb, token)
    THEN Return(Custom0, atb)
    ELSE Return(Ok, insert(atb, token, EmptyMap))

\* delete supported token
check_delete_token(token, atb) ==
    IF ~verify_signature(ADMIN_PUBKEY, MOCK_SIG)
    THEN Return(MissingRequiredSignature, atb)
    ELSE IF ~contains_key(atb, token)
    THEN Return(Custom1, atb)
    ELSE Return(Ok, remove(atb, token))

\* u64 `+=`: with overflow checks the addition panics when the sum does not
\* fit; without them it wraps.
AddAssign(balance, amount, checks) ==
    IF balance + amount > MaxU64
    THEN [panicked |-> checks, value |-> (balance + amount) % U64Modulus]
    ELSE [panicked |-> FALSE, value |-> balance + amount]

\* user_deposit_token with the asset's mapping rebuilt around the depositing
\* account instead of the account being updated in it
user_deposit_token_rebuilds(token, user, amount, atb, checks) ==
    IF ~verify_signature(user, MOCK_SIG)
    THEN Return(MissingRequiredSignature, atb)
    ELSE IF ~contains_key(atb, token)
    THEN Return(Custom2, atb)
    ELSE LET current_token_balances == or_insert(atb[token], user, 0)
             sum == AddAssign(current_token_balances[user], amount, checks)
         IN  IF sum.panicked
             THEN Abort(insert(atb, token, current_token_balances))
             ELSE Return(Ok, insert(atb, token,
                             insert(EmptyMap, user, sum.value)))

\* user_deposit_token storing the amount in place of adding it (`=` for `+=`)
user_deposit_token_overwrites(token, user, amount, atb, checks) ==
    IF ~verify_signature(user, MOCK_SIG)
    THEN Return(MissingRequiredSignature, atb)
    ELSE IF ~contains_key(atb, token)
    THEN Return(Custom2, atb)
    ELSE LET current_token_balances == or_insert(atb[token], user, 0)
         IN  Return(Ok, insert(atb, token,
                        insert(current_token_balances, user, amount)))

\* user deposit token
user_deposit_token(token, user, amount, atb, checks) ==
    IF ~verify_signature(user, MOCK_SIG)
    THEN Return(MissingRequiredSignature, atb)
    ELSE IF ~contains_key(atb, token)
    THEN Return(Custom2, atb)
    ELSE LET current_token_balances == or_insert(atb[token], user, 0)
             sum == AddAssign(current_token_balances[user], amount, checks)
         IN  IF sum.panicked
             THEN Abort(insert(atb, token, current_token_balances))
             ELSE Return(Ok, insert(atb, token,
                             insert(current_token_balances, user, sum.value)))

\* user_withdraw_token without the balance check before the subtraction
user_withdraw_token_unchecked(token, user, amount, atb) ==
    IF ~verify_signature(user, MOCK_SIG)
    THEN Return(MissingRequiredSignature, atb)
    ELSE IF ~contains_key(atb, token)
    THEN Return(Custom3, atb)
    ELSE LET current_token_balances == or_insert(atb[token], user, 0)
             balance == current_token_balances[user]
         IN  Return(Ok, insert(atb, token,
                        insert(current_token_balances, user, balance - amount)))

\* user_withdraw_token dropping the account's entry once it is emptied
user_withdraw_token_prunes(token, user, amount, atb) ==
    IF ~verify_signature(user, MOCK_SIG)
    THEN Return(MissingRequiredSignature, atb)
    ELSE IF ~contains_key(atb, token)
    THEN Return(Custom3, atb)
    ELSE LET current_token_balances == or_insert(atb[token], user, 0)
             balance == current_token_balances[user]
         IN  IF balance < amount
             THEN Return(InsufficientFunds,
                         insert(atb, token, current_token_balances))
             ELSE IF balance = amount
             THEN Return(Ok, insert(atb, token,
                             remove(current_token_balances, user)))
             ELSE Return(Ok, insert(atb, token,
                             insert(current_token_balances, user,
                                    balance - amount)))

\* user withdraw token
user_withdraw_token(token, user, amount, atb) ==
    IF ~verify_signature(user, MOCK_SIG)
    THEN Return(MissingRequiredSignature, atb)
    ELSE IF ~contains_key(atb, token)
    THEN Return(Custom3, atb)
    ELSE LET current_token_balances == or_insert(atb[token], user, 0)
             balance == current_token_balances[user]
         IN  IF balance < amount
             THEN Return(InsufficientFunds,
                         insert(atb, token, current_token_balances))
             ELSE Return(Ok, insert(atb, token,
                             insert(current_token_balances, user,
                                    balance - amount)))

\* the match of process_instruction
Dispatch(instr, atb, checks) ==
    CASE instr.kind = "AdminAddSupportedToken" ->
            check_add_token(instr.token, atb)
      [] instr.kind = "AdminDeleteSupportedToken" ->
            check_delete_token(instr.token, atb)
      [] instr.kind = "UserDeposit" ->
            user_deposit_token(instr.token, instr.user, instr.amount, atb, checks)
      [] instr.kind = "UserWithdraw" ->
            user_withdraw_token(instr.token, instr.user, instr.amount, atb)

\* ---------------------------------------------------------------- actions

\* program entrypoint's implementation, for one call: the ProgramResult, the
\* map and the mutex state it leaves.  A malformed envelope panics in
\* deserialize_instruction before the lock is taken; a poisoned mutex makes
\* lock().unwrap() panic; a panic of the handler, which runs with the guard
\* alive, poisons the mutex.
process_instruction_on(instr, atb, poison, checks) ==
    IF instr.kind = "Malformed" \/ poison
    THEN [result |-> Panic, map |-> atb, poisoned |-> poison]
    ELSE LET out == Dispatch(instr, atb, checks)
         IN  [result |-> out.result, map |-> out.map, poisoned |-> out.panicked]

\* the call on the program's state
process_instruction(instr) ==
    process_instruction_on(instr, all_token_balances, poisoned, overflow_checks)

ProcessAdminAddSupportedToken ==
    \E token \in TokenTypes, by \in Pubkeys :
        LET instr == AdminAddSupportedToken(token)
            out == process_instruction(instr)
        IN  /\ instruction' = instr
            /\ signer' = by
            /\ before' = all_token_balances
            /\ result' = out.result
            /\ all_token_balances' = out.map
            /\ poisoned' = out.poisoned
            /\ UNCHANGED <<overflow_checks, tally_vars, thread_vars>>

ProcessAdminDeleteSupportedToken ==
    \E token \in TokenTypes, by \in Pubkeys :
        LET instr == AdminDeleteSupportedToken(token)
            out == process_instruction(instr)
        IN  /\ instruction' = instr
            /\ signer' = by
            /\ before' = all_token_balances
            /\ result' = out.result
            /\ all_token_balances' = out.map
            /\ poisoned' = out.poisoned
            /\ UNCHANGED <<overflow_checks, tally_vars, thread_vars>>

ProcessUserDeposit ==
    \E token \in TokenTypes, user \in Pubkeys, amount \in Amounts, by \in Pubkeys :
        LET instr == UserDeposit(token, user, amount)
            out == process_instruction(instr)
        IN  /\ instruction' = instr
            /\ signer' = by
            /\ before' = all_token_balances
            /\ result' = out.result
            /\ all_token_balances' = out.map
            /\ poisoned' = out.poisoned
            /\ UNCHANGED <<overflow_checks, tally_vars, thread_vars>>

ProcessUserWithdraw ==
    \E token \in TokenTypes, user \in Pubkeys, amount \in Amounts, by \in Pubkeys :
        LET instr == UserWithdraw(token, user, amount)
            out == process_instruction(instr)
        IN  /\ instruction' = instr
            /\ signer' = by
            /\ before' = all_token_balances
            /\ result' = out.result
            /\ all_token_balances' = out.map
            /\ poisoned' = out.poisoned
            /\ UNCHANGED <<overflow_checks, tally_vars, thread_vars>>

ProcessMalformed ==
    \E by \in Pubkeys :
        LET out == process_instruction(Malformed)
        IN  /\ instruction' = Malformed
            /\ signer' = by
            /\ before' = all_token_balances
            /\ result' = out.result
            /\ all_token_balances' = out.map
            /\ poisoned' = out.poisoned
            /\ UNCHANGED <<overflow_checks, tally_vars, thread_vars>>

Init ==
    /\ all_token_balances = EmptyMap
    /\ poisoned = FALSE
    /\ overflow_checks \in BOOLEAN
    /\ instruction = NoInstruction
    /\ signer = ADMIN_PUBKEY
    /\ result = "None"
    /\ before = EmptyMap
    /\ deposited = [t \in TokenTypes |-> [u \in Pubkeys |-> 0]]
    /\ withdrawn = [t \in TokenTypes |-> [u \in Pubkeys |-> 0]]
    /\ overflowed = {}
    /\ pc = [th \in Threads |-> "idle"]
    /\ cmd = [th \in Threads |-> NoInstruction]
    /\ outcome = [th \in Threads |-> "None"]
    /\ holder = NoHolder
    /\ lin_balances = EmptyMap
    /\ lin_poisoned = FALSE
    /\ lin_outcome = [th \in Threads |-> "None"]

Next ==
    \/ ProcessAdminAddSupportedToken
    \/ ProcessAdminDeleteSupportedToken
    \/ ProcessUserDeposit
    \/ ProcessUserWithdraw
    \/ ProcessMalformed

Spec == Init /\ [][Next]_vars

\* ------------------------------------------------------------ type sanity

BalanceMaps ==
    UNION {[S -> 0 .. MaxU64] : S \in SUBSET Pubkeys}

TypeOK ==
    /\ DOMAIN all_token_balances \subseteq TokenTypes
    /\ \A t \in DOMAIN all_token_balances : all_token_balances[t] \in BalanceMaps
    /\ poisoned \in BOOLEAN
    /\ overflow_checks \in BOOLEAN
    /\ signer \in Pubkeys

\* ------------------------------------------------- vocabulary of the claims

\* balance_of: absent entries read as 0
BalanceOf(atb, token, user) ==
    IF contains_key(atb, token) /\ contains_key(atb[token], user)
    THEN atb[token][user]
    ELSE 0

\* error kinds of the design, as the program reports them
Unauthorized == MissingRequiredSignature
DuplicateAsset == Custom0
UnknownAssetOnDelete == Custom1
UnknownAssetOnDeposit == Custom2
UnknownAssetOnWithdraw == Custom3
UnknownAsset == {Custom1, Custom2, Custom3}
Overflow == "Overflow"

\* the errors process_instruction returns to its caller
ReturnedErrors ==
    {MissingRequiredSignature, Custom0, Custom1, Custom2, Custom3,
     InsufficientFunds}

IsAdminCommand ==
    instruction.kind \in {"AdminAddSupportedToken", "AdminDeleteSupportedToken"}

IsUserCommand == instruction.kind \in {"UserDeposit", "UserWithdraw"}

\* the last call found the mutex healthy and ran its handler
LockAcquired == instruction.kind \notin {"None", "Malformed"} /\ result # Panic

Unchanged == all_token_balances = before

\* ------------------------------------------------------------------ claims

\* C1: whenever a command returns an error of any kind, the ledger (the
\* registered assets and every account entry of every asset) is the same
\* after the command as before it.
C1_RejectedCommandIsNoOp ==
    result \in ReturnedErrors => Unchanged

\* C2: a Withdraw on a registered asset of more than the account's balance
\* (an absent account counting as 0) fails with InsufficientFunds and leaves
\* the ledger identical: no entry is created for an account that had none.
C2_InsufficientWithdrawLeavesLedger ==
    ( /\ instruction.kind = "UserWithdraw"
      /\ contains_key(before, instruction.token)
      /\ instruction.amount > BalanceOf(before, instruction.token, instruction.user) )
    => /\ result = InsufficientFunds
       /\ Unchanged

\* C3: a Deposit on a registered asset whose resulting balance would exceed
\* the largest u64 fails with an explicit Overflow error and leaves the
\* balance unchanged; the wrapped sum is never stored.
C3_DepositOverflowIsExplicitError ==
    ( /\ instruction.kind = "UserDeposit"
      /\ contains_key(before, instruction.token)
      /\ BalanceOf(before, instruction.token, instruction.user)
           + instruction.amount > MaxU64 )
    => /\ result = Overflow
       /\ BalanceOf(all_token_balances, instruction.token, instruction.user)
            = BalanceOf(before, instruction.token, instruction.user)

\* C4: RegisterAsset or DeregisterAsset issued by a principal other than the
\* admin fails with Unauthorized and mutates nothing, so the set of
\* registered assets changes only by a command the admin authorized.
C4_AdminOnlyRegistry ==
    /\ (IsAdminCommand /\ signer # ADMIN_PUBKEY)
       => (result = Unauthorized /\ Unchanged)
    /\ DOMAIN all_token_balances # DOMAIN before
       => (IsAdminCommand /\ signer = ADMIN_PUBKEY)

\* C5: Deposit or Withdraw on an account issued by a principal other than
\* that account fails with Unauthorized and mutates nothing, so a balance
\* changes only by a Deposit/Withdraw the account itself authorized, or by
\* deregistration of the asset.
C5_SelfOnlyBalances ==
    /\ (IsUserCommand /\ signer # instruction.user)
       => (result = Unauthorized /\ Unchanged)
    /\ \A t \in TokenTypes, u \in Pubkeys :
          BalanceOf(all_token_balances, t, u) # BalanceOf(before, t, u)
          => \/ /\ IsUserCommand
                /\ instruction.token = t
                /\ instruction.user = u
                /\ signer = u
             \/ /\ instruction.kind = "AdminDeleteSupportedToken"
                /\ instruction.token = t

\* C6: RegisterAsset of an asset that is already registered fails with
\* DuplicateAsset, and the asset stays registered with its existing account
\* balances intact.
C6_DuplicateRegisterRejected ==
    ( /\ instruction.kind = "AdminAddSupportedToken"
      /\ contains_key(before, instruction.token) )
    => /\ result = DuplicateAsset
       /\ Unchanged

\* C7: DeregisterAsset of an asset that is not registered fails with
\* UnknownAsset and leaves the registry and all balances unchanged.
C7_DeregisterUnknownRejected ==
    ( /\ instruction.kind = "AdminDeleteSupportedToken"
      /\ ~contains_key(before, instruction.token) )
    => /\ result = UnknownAssetOnDelete
       /\ Unchanged

\* C8: Deposit or Withdraw naming an asset that is not registered fails with
\* UnknownAsset for every account and amount, and mutates nothing: the asset
\* is not registered implicitly and no balance entry is created.
C8_UnknownAssetTransferRejected ==
    ( /\ IsUserCommand
      /\ ~contains_key(before, instruction.token) )
    => /\ result = (IF instruction.kind = "UserDeposit"
                    THEN UnknownAssetOnDeposit
                    ELSE UnknownAssetOnWithdraw)
       /\ Unchanged

\* Deposit(a1) on an empty account of a registered asset, directly followed
\* by Withdraw(a2 <= a1) on the same account: both succeed, a1 - a2 is left.
DepositThenWithdrawStep ==
    ( /\ instruction.kind = "UserDeposit"
      /\ contains_key(before, instruction.token)
      /\ BalanceOf(before, instruction.token, instruction.user) = 0
      /\ instruction'.kind = "UserWithdraw"
      /\ instruction'.token = instruction.token
      /\ instruction'.user = instruction.user
      /\ instruction'.amount <= instruction.amount )
    => /\ result = Ok
       /\ result' = Ok
       /\ BalanceOf(all_token_balances', instruction.token, instruction.user)
            = instruction.amount - instruction'.amount

\* C9: on a registered asset, for an account holding nothing and amounts
\* a1 >= a2 >= 0, Deposit(a1) directly followed by Withdraw(a2) both succeed
\* and leave the account's balance equal to a1 - a2.
C9_DepositThenWithdraw == [][DepositThenWithdrawStep]_vars

\* A DeregisterAsset of a registered asset succeeds and removes the asset
\* with its whole mapping.
DeregisterSucceedsStep ==
    ( /\ instruction'.kind = "AdminDeleteSupportedToken"
      /\ contains_key(all_token_balances, instruction'.token) )
    => /\ result' = Ok
       /\ all_token_balances' = remove(all_token_balances, instruction'.token)

\* The command on an asset that directly follows its deregistration fails
\* with UnknownAsset.
AfterDeregisterStep ==
    ( /\ instruction.kind = "AdminDeleteSupportedToken"
      /\ contains_key(before, instruction.token)
      /\ instruction'.kind \in {"AdminDeleteSupportedToken",
                                "UserDeposit", "UserWithdraw"}
      /\ instruction'.token = instruction.token )
    => /\ result' \in UnknownAsset
       /\ all_token_balances' = all_token_balances

\* A successful RegisterAsset leaves every account's balance in the asset 0.
RegisterStartsEmptyStep ==
    ( /\ instruction'.kind = "AdminAddSupportedToken"
      /\ result' = Ok )
    => \A u \in Pubkeys :
          BalanceOf(all_token_balances', instruction'.token, u) = 0

\* C10: DeregisterAsset of a registered asset succeeds whatever balances the
\* asset holds and removes the asset with its whole balance mapping; the
\* Deposit, Withdraw or DeregisterAsset that directly follows for that asset
\* fails with UnknownAsset, and whenever the asset is registered again every
\* account's balance in it is 0.
C10_DeregisterRemovesEverything ==
    [][ /\ DeregisterSucceedsStep
        /\ AfterDeregisterStep
        /\ RegisterStartsEmptyStep ]_vars

\* --------------------------------------- calls that were given the lock
\* The handlers themselves, on calls that found the mutex healthy: what the
\* registry and balance checks do once a call reaches them.

\* A mutex that is not poisoned, before and after the step.
Healthy == ~poisoned /\ ~poisoned'

HandledDuplicateRegisterRejected ==
    LockAcquired => C6_DuplicateRegisterRejected

HandledDeregisterUnknownRejected ==
    LockAcquired => C7_DeregisterUnknownRejected

HandledUnknownAssetTransferRejected ==
    LockAcquired => C8_UnknownAssetTransferRejected

HandledDepositThenWithdraw ==
    [][Healthy => DepositThenWithdrawStep]_vars

HandledDeregisterRemovesEverything ==
    [][Healthy => /\ DeregisterSucceedsStep
                  /\ AfterDeregisterStep
                  /\ RegisterStartsEmptyStep]_vars

\* ------------------------------------------------------- claims, continued

\* the decoder's error kind of the design; the program has no such result
DecodeError == "DecodeError"

\* C12: a malformed command envelope is reported to the caller as a returned
\* DecodeError result, not as an abort of the call, and the ledger is
\* unchanged by it.
C12_MalformedEnvelopeReturnsError ==
    instruction.kind = "Malformed"
    => /\ result = DecodeError
       /\ Unchanged

\* C13: a successful RegisterAsset(X) of an asset X that was not registered
\* makes X registered with an empty balance mapping and leaves every other
\* registered asset and all of its balances unchanged.
C13_RegisterAddsEmptyAssetOnly ==
    ( /\ instruction.kind = "AdminAddSupportedToken"
      /\ ~contains_key(before, instruction.token)
      /\ result = Ok )
    => /\ contains_key(all_token_balances, instruction.token)
       /\ all_token_balances[instruction.token] = EmptyMap
       /\ \A t \in TokenTypes \ {instruction.token} :
             /\ contains_key(all_token_balances, t) <=> contains_key(before, t)
             /\ contains_key(before, t) => all_token_balances[t] = before[t]

\* A registration succeeded while another asset held a nonzero balance.
C13_Witness ==
    /\ instruction.kind = "AdminAddSupportedToken"
    /\ ~contains_key(before, instruction.token)
    /\ result = Ok
    /\ \E t \in DOMAIN before, u \in Pubkeys : BalanceOf(before, t, u) > 0

\* The last command lacks the authorization its policy asks for.
IsUnauthorized ==
    \/ IsAdminCommand /\ signer # ADMIN_PUBKEY
    \/ IsUserCommand /\ signer # instruction.user

\* The last command fails a precondition on the state it started from.
FailsValidation ==
    \/ /\ instruction.kind = "AdminAddSupportedToken"
       /\ contains_key(before, instruction.token)
    \/ /\ instruction.kind = "AdminDeleteSupportedToken"
       /\ ~contains_key(before, instruction.token)
    \/ /\ IsUserCommand
       /\ ~contains_key(before, instruction.token)
    \/ /\ instruction.kind = "UserWithdraw"
       /\ instruction.amount
            > BalanceOf(before, instruction.token, instruction.user)
    \/ /\ instruction.kind = "UserDeposit"
       /\ BalanceOf(before, instruction.token, instruction.user)
            + instruction.amount > MaxU64

\* C14: authorization is decided before any state-dependent precondition: a
\* command that is unauthorized and would also fail validation returns
\* Unauthorized, never the validation error, and touches no state.
C14_AuthorizationBeforeValidation ==
    (IsUnauthorized /\ FailsValidation)
    => /\ result = Unauthorized
       /\ Unchanged

\* C15: an authorized Withdraw on a registered asset succeeds if and only if
\* the amount is at most the account's balance (an absent account counting as
\* 0), and on success the balance decreases by exactly the amount.
C15_WithdrawSucceedsIffCovered ==
    ( /\ instruction.kind = "UserWithdraw"
      /\ signer = instruction.user
      /\ contains_key(before, instruction.token) )
    => /\ result = Ok
          <=> instruction.amount
                <= BalanceOf(before, instruction.token, instruction.user)
       /\ result = Ok
          => BalanceOf(all_token_balances, instruction.token, instruction.user)
               = BalanceOf(before, instruction.token, instruction.user)
                   - instruction.amount

HandledWithdrawSucceedsIffCovered ==
    LockAcquired => C15_WithdrawSucceedsIffCovered

\* C16: in every reachable state balance entries exist only under registered
\* assets and every stored balance is an integer of the balance type's
\* range; no successful withdrawal takes more than the account held.
C16_BalancesInRange ==
    /\ DOMAIN all_token_balances \subseteq TokenTypes
    /\ \A t \in DOMAIN all_token_balances :
          \A u \in DOMAIN all_token_balances[t] :
             /\ all_token_balances[t][u] \in Int
             /\ 0 <= all_token_balances[t][u]
             /\ all_token_balances[t][u] <= MaxU64
    /\ (instruction.kind = "UserWithdraw" /\ result = Ok)
       => instruction.amount
            <= BalanceOf(before, instruction.token, instruction.user)

\* A withdrawal of a nonzero amount succeeded.
C16_Witness ==
    /\ instruction.kind = "UserWithdraw"
    /\ result = Ok
    /\ instruction.amount > 0

\* the account has an entry under the asset
HasEntry(atb, token, user) ==
    contains_key(atb, token) /\ contains_key(atb[token], user)

\* C17: an existing balance entry of an (asset, account) pair persists, even
\* at balance 0, until the asset is deregistered: Deposit, Withdraw and
\* RegisterAsset never remove an existing account entry.
C17_EntriesPersist ==
    \A t \in TokenTypes, u \in Pubkeys :
       ( /\ HasEntry(before, t, u)
         /\ ~( /\ instruction.kind = "AdminDeleteSupportedToken"
               /\ instruction.token = t
               /\ result = Ok ) )
       => HasEntry(all_token_balances, t, u)

\* A withdrawal of the whole nonzero balance left the entry, at balance 0.
C17_Witness ==
    /\ instruction.kind = "UserWithdraw"
    /\ result = Ok
    /\ instruction.amount > 0
    /\ HasEntry(all_token_balances, instruction.token, instruction.user)
    /\ all_token_balances[instruction.token][instruction.user] = 0

\* C19: a Deposit or Withdraw on (asset X, account A), whether it succeeds or
\* fails, leaves unchanged the set of registered assets, every entry of every
\* other account under X, and every entry under every other asset.
C19_TransferFrame ==
    IsUserCommand
    => /\ DOMAIN all_token_balances = DOMAIN before
       /\ \A t \in DOMAIN before :
             \/ /\ t # instruction.token
                /\ all_token_balances[t] = before[t]
             \/ /\ t = instruction.token
                /\ \A u \in Pubkeys \ {instruction.user} :
                      /\ HasEntry(all_token_balances, t, u)
                           <=> HasEntry(before, t, u)
                      /\ BalanceOf(all_token_balances, t, u)
                           = BalanceOf(before, t, u)

\* A deposit succeeded while another account of the same asset and an account
\* of another asset held nonzero balances.
C19_Witness ==
    /\ instruction.kind = "UserDeposit"
    /\ result = Ok
    /\ instruction.amount > 0
    /\ \E u \in Pubkeys \ {instruction.user} :
          BalanceOf(before, instruction.token, u) > 0
    /\ \E t \in TokenTypes \ {instruction.token}, u \in Pubkeys :
          BalanceOf(before, t, u) > 0

\* ------------------------------------------------ the sums of amounts moved
\* The same calls as Spec, recording per (token, user) pair the amounts of
\* the successful deposits and withdrawals instead of the last call.  The
\* sums of a pair restart with the asset's registration; they are also put
\* back to 0 when the asset is deregistered or a deposit wraps the pair, after
\* which they are not read until the next registration.

\* the sums restarted for every account of a token
Restarted(tally, token) ==
    [tally EXCEPT ![token] = [u \in Pubkeys |-> 0]]

TallyAdminAddSupportedToken ==
    \E token \in TokenTypes :
        LET out == process_instruction(AdminAddSupportedToken(token))
        IN  /\ all_token_balances' = out.map
            /\ poisoned' = out.poisoned
            /\ IF out.result = Ok
               THEN /\ deposited' = Restarted(deposited, token)
                    /\ withdrawn' = Restarted(withdrawn, token)
                    /\ overflowed' = {p \in overflowed : p[1] # token}
               ELSE UNCHANGED tally_vars
            /\ UNCHANGED <<overflow_checks, call_vars, thread_vars>>

TallyAdminDeleteSupportedToken ==
    \E token \in TokenTypes :
        LET out == process_instruction(AdminDeleteSupportedToken(token))
        IN  /\ all_token_balances' = out.map
            /\ poisoned' = out.poisoned
            /\ IF out.result = Ok
               THEN /\ deposited' = Restarted(deposited, token)
                    /\ withdrawn' = Restarted(withdrawn, token)
                    /\ overflowed' = {p \in overflowed : p[1] # token}
               ELSE UNCHANGED tally_vars
            /\ UNCHANGED <<overflow_checks, call_vars, thread_vars>>

TallyUserDeposit ==
    \E token \in TokenTypes, user \in Pubkeys, amount \in Amounts :
        LET out == process_instruction(UserDeposit(token, user, amount))
            counted == out.result = Ok /\ <<token, user>> \notin overflowed
            wrapped == BalanceOf(all_token_balances, token, user) + amount
                         > MaxU64
        IN  /\ (counted /\ ~wrapped) => deposited[token][user] + amount <= MaxTally
            /\ all_token_balances' = out.map
            /\ poisoned' = out.poisoned
            /\ deposited' = IF counted
                            THEN [deposited EXCEPT ![token][user] =
                                     IF wrapped THEN 0 ELSE @ + amount]
                            ELSE deposited
            /\ withdrawn' = IF counted /\ wrapped
                            THEN [withdrawn EXCEPT ![token][user] = 0]
                            ELSE withdrawn
            /\ overflowed' = IF counted /\ wrapped
                             THEN overflowed \cup {<<token, user>>}
                             ELSE overflowed
            /\ UNCHANGED <<overflow_checks, call_vars, thread_vars>>

TallyUserWithdraw ==
    \E token \in TokenTypes, user \in Pubkeys, amount \in Amounts :
        LET out == process_instruction(UserWithdraw(token, user, amount))
            counted == out.result = Ok /\ <<token, user>> \notin overflowed
        IN  /\ all_token_balances' = out.map
            /\ poisoned' = out.poisoned
            /\ withdrawn' = IF counted
                            THEN [withdrawn EXCEPT ![token][user] = @ + amount]
                            ELSE withdrawn
            /\ UNCHANGED <<overflow_checks, call_vars, thread_vars, deposited,
                           overflowed>>

NextTally ==
    \/ TallyAdminAddSupportedToken
    \/ TallyAdminDeleteSupportedToken
    \/ TallyUserDeposit
    \/ TallyUserWithdraw

SpecTally == Init /\ [][NextTally]_vars

\* C20: in every reachable state, for every registered asset and account
\* that no deposit has overflowed since the asset's latest registration, the
\* balance equals the sum of the amounts of the successful deposits minus the
\* sum of the amounts of the successful withdrawals since that registration;
\* failed commands contribute nothing.
C20_Conservation ==
    \A t \in DOMAIN all_token_balances, u \in Pubkeys :
       <<t, u>> \notin overflowed
       => BalanceOf(all_token_balances, t, u)
            = deposited[t][u] - withdrawn[t][u]

\* Deposits and withdrawals both counted and a balance left for one account,
\* beside an account of the same asset that a deposit has wrapped.
C20_Witness ==
    \E t \in DOMAIN all_token_balances, u \in Pubkeys :
       /\ <<t, u>> \notin overflowed
       /\ deposited[t][u] > withdrawn[t][u]
       /\ withdrawn[t][u] > 0
       /\ \E u2 \in Pubkeys : <<t, u2>> \in overflowed

\* ------------------------------------------------------- concurrent callers
\* Several threads inside process_instruction at once, each call taken step
\* by step: decode, lock, the handler's entry().or_insert(0), the rest of the
\* handler with the return that drops the guard.  Beside the program's state
\* the calls are applied whole, one at a time, to lin_balances in the order
\* in which they are given the lock.

\* the instructions the threads send
ThreadInstructions ==
    {AdminAddSupportedToken(t) : t \in ThreadTokenTypes}
    \cup {AdminDeleteSupportedToken(t) : t \in ThreadTokenTypes}
    \cup {UserDeposit(t, u, a) :
            t \in ThreadTokenTypes, u \in ThreadPubkeys, a \in Amounts}
    \cup {UserWithdraw(t, u, a) :
            t \in ThreadTokenTypes, u \in ThreadPubkeys, a \in Amounts}

\* Mutex::lock never blocking: the guard is handed out whoever holds it
MutexFree_never_blocks(h) == TRUE

\* Mutex::lock returns only while no other guard is alive
MutexFree(h) == h = NoHolder

\* the handler of the instruction starts with entry(user).or_insert(0)
StartsWithEntry(instr, atb) ==
    /\ instr.kind \in {"UserDeposit", "UserWithdraw"}
    /\ contains_key(atb, instr.token)

\* deserialize_instruction: a malformed envelope panics there, before the lock
ThreadDecode ==
    \E th \in Threads, instr \in ThreadInstructions \cup {Malformed} :
        /\ pc[th] = "idle"
        /\ cmd' = [cmd EXCEPT ![th] = instr]
        /\ IF instr.kind = "Malformed"
           THEN /\ pc' = [pc EXCEPT ![th] = "returned"]
                /\ outcome' = [outcome EXCEPT ![th] = Panic]
                /\ lin_outcome' = [lin_outcome EXCEPT ![th] =
                      process_instruction_on(instr, lin_balances, lin_poisoned,
                                             overflow_checks).result]
           ELSE /\ pc' = [pc EXCEPT ![th] = "decoded"]
                /\ UNCHANGED <<outcome, lin_outcome>>
        /\ UNCHANGED <<all_token_balances, poisoned, overflow_checks, call_vars,
                       tally_vars, holder, lin_balances, lin_poisoned>>

\* CONTRACT_STATE.lock().unwrap(): waits for the mutex; panics, giving the
\* guard back at once, when the mutex is poisoned
ThreadLock ==
    \E th \in Threads :
        /\ pc[th] = "decoded"
        /\ MutexFree(holder)
        /\ LET ref == process_instruction_on(cmd[th], lin_balances, lin_poisoned,
                                             overflow_checks)
           IN  /\ lin_balances' = ref.map
               /\ lin_poisoned' = ref.poisoned
               /\ lin_outcome' = [lin_outcome EXCEPT ![th] = ref.result]
        /\ IF poisoned
           THEN /\ pc' = [pc EXCEPT ![th] = "returned"]
                /\ outcome' = [outcome EXCEPT ![th] = Panic]
                /\ UNCHANGED holder
           ELSE /\ pc' = [pc EXCEPT ![th] = "locked"]
                /\ holder' = th
                /\ UNCHANGED outcome
        /\ UNCHANGED <<all_token_balances, poisoned, overflow_checks, call_vars,
                       tally_vars, cmd>>

\* the entry(user).or_insert(0) of a deposit or withdrawal, on its own
ThreadEntry ==
    \E th \in Threads :
        /\ pc[th] = "locked"
        /\ StartsWithEntry(cmd[th], all_token_balances)
        /\ all_token_balances' =
              insert(all_token_balances, cmd[th].token,
                     or_insert(all_token_balances[cmd[th].token],
                               cmd[th].user, 0))
        /\ pc' = [pc EXCEPT ![th] = "entered"]
        /\ UNCHANGED <<poisoned, overflow_checks, call_vars, tally_vars, cmd,
                       outcome, holder, lin_balances, lin_poisoned, lin_outcome>>

\* the rest of the handler and the return (or the unwinding of a panic),
\* which drops the guard; a guard dropped while panicking poisons the mutex
ThreadFinish ==
    \E th \in Threads :
        /\ \/ pc[th] = "entered"
           \/ pc[th] = "locked" /\ ~StartsWithEntry(cmd[th], all_token_balances)
        /\ LET out == Dispatch(cmd[th], all_token_balances, overflow_checks)
           IN  /\ all_token_balances' = out.map
               /\ outcome' = [outcome EXCEPT ![th] = out.result]
               /\ poisoned' = (poisoned \/ out.panicked)
        /\ holder' = IF holder = th THEN NoHolder ELSE holder
        /\ pc' = [pc EXCEPT ![th] = "returned"]
        /\ UNCHANGED <<overflow_checks, call_vars, tally_vars, cmd,
                       lin_balances, lin_poisoned, lin_outcome>>

\* the caller takes the outcome; the thread is free for its next call
ThreadReturn ==
    \E th \in Threads :
        /\ pc[th] = "returned"
        /\ pc' = [pc EXCEPT ![th] = "idle"]
        /\ cmd' = [cmd EXCEPT ![th] = NoInstruction]
        /\ outcome' = [outcome EXCEPT ![th] = "None"]
        /\ lin_outcome' = [lin_outcome EXCEPT ![th] = "None"]
        /\ UNCHANGED <<all_token_balances, poisoned, overflow_checks, call_vars,
                       tally_vars, holder, lin_balances, lin_poisoned>>

NextThreads ==
    \/ ThreadDecode
    \/ ThreadLock
    \/ ThreadEntry
    \/ ThreadFinish
    \/ ThreadReturn

SpecThreads == Init /\ [][NextThreads]_vars

\* the thread is inside the handler, between lock() and the drop of the guard
InHandler(th) == pc[th] \in {"locked", "entered"}

\* C11: with several callers inside process_instruction, each command holds
\* the mutex for its whole validate-and-mutate span: at most one call is in
\* its handler; whenever the mutex is free (the only time a caller can look
\* at the ledger) the ledger is the one obtained by applying the commands
\* whole, one at a time, in the order of their lock acquisitions, so no
\* partially applied command is seen; and every outcome a caller gets is the
\* outcome of its command in that one-at-a-time application.
C11_Linearizable ==
    /\ \A th1, th2 \in Threads :
          (InHandler(th1) /\ InHandler(th2)) => th1 = th2
    /\ \A th \in Threads : InHandler(th) => holder = th
    /\ holder = NoHolder
       => /\ all_token_balances = lin_balances
          /\ poisoned = lin_poisoned
    /\ \A th \in Threads :
          pc[th] = "returned" => outcome[th] = lin_outcome[th]

\* One caller is half way through its handler (its zero entry is in the map,
\* its amount is not yet applied) while another caller has decoded a command
\* that changes the ledger and waits for the mutex.
C11_Witness ==
    \E th1, th2 \in Threads :
       /\ pc[th1] = "entered"
       /\ cmd[th1].amount > 0
       /\ all_token_balances # lin_balances
       /\ pc[th2] = "decoded"
       /\ cmd[th2].kind \in {"UserWithdraw", "AdminDeleteSupportedToken"}

\* C18: every invoked command completes with success or a returned error and
\* the mutex is released at the end of the command whatever its outcome, so
\* that no command outcome, an overflowing deposit included, leaves the
\* ledger unavailable to later commands.
C18_LedgerStaysAvailable ==
    /\ \A th \in Threads :
          (pc[th] = "returned" /\ cmd[th].kind # "Malformed")
          => /\ outcome[th] \in {Ok} \cup ReturnedErrors
             /\ holder # th
    /\ ~poisoned

\* The mutex itself is given back by every outcome, a panic included.
GuardDroppedAtReturn ==
    \A th \in Threads : pc[th] \in {"idle", "decoded", "returned"} => holder # th

====
